---- MODULE Spec2Model ----
(***************************************************************************)
(* Range-based stock ledger of Proyecto_QR.                                *)
(*                                                                         *)
(*  - escaner.py : "Eliminar / Ajustar ultimos ingresos": rollback of the  *)
(*    newest inbound ranges of stock.stock_pp, guarded by stock.salidas_qr,*)
(*    with the sheets_outbox queue and its flush.        (Spec)            *)
(*  - salida.py  : "Baja por QR / Manual": outbound movements recorded in  *)
(*    produccion.productos_bajas against produccion.stock, with the        *)
(*    projection table produccion.sheet.                 (SpecSalida)      *)
(*                                                                         *)
(* Every handler of the two programs is one action.  The database found at *)
(* start-up is drawn from bounded sets of well-formed tables.              *)
(***************************************************************************)
EXTENDS Integers, Sequences, FiniteSets, TLC

\* ------------------------------------------------------------------ bounds
NumLotes == 1
MaxSerie == 3
MaxPacks == 2
MaxRanges == 2
MaxSalidas == 1
MaxCantidad == 2
MaxMsgs == 2
\* messages found queued when the drain of the outbox is followed
MaxBacklog == 52
\* stations running salida.py against the same database
NumStations == 2
\* bounds of the tables of salida.py
NumProductos == 1
NumLotesStock == 2
MaxSerieStock == 2
MaxPacksStock == 2
MaxStockRows == 2
MaxBajas == 2
MaxCantidadBaja == 2
\* bounds of the runs of generacionEimpresion.py
MaxGenSerie == 11
MaxCantidadGen == 2
MaxEmitted == 2
MaxDescLen == 2

\* ------------------------------------------------------- program constants
\* pop_outbox_batch(conn, limit=50)
BatchLimit == 50
\* Python's None (an absent keyword argument, an empty query result)
None == -1
\* f"NS={nro_serie:06d}"
SerieWidth == 6
\* desc_clean[:90]
DescLimit == 90

Lotes == 1..NumLotes
Series == 1..MaxSerie
UnitTypes == {"pallet", "packs"}

Min(a, b) == IF a <= b THEN a ELSE b
Max(a, b) == IF a >= b THEN a ELSE b

RECURSIVE SumSet(_, _)
\* SUM(f(row)) over the rows of a table; f is given as a function on S.
SumSet(S, f) ==
  IF S = {} THEN 0
  ELSE LET x == CHOOSE y \in S : TRUE IN f[x] + SumSet(S \ {x}, f)

RECURSIVE SubsetsUpTo(_, _)
SubsetsUpTo(S, k) ==
  IF k = 0 THEN {{}}
  ELSE LET P == SubsetsUpTo(S, k - 1) IN P \cup {p \cup {x} : p \in P, x \in S}

SeqToSet(s) == {s[i] : i \in 1..Len(s)}

\* ------------------------------------------------------------------- state
VARIABLES
  stock_pp,    \* stock.stock_pp: set of [id, lote, serie_inicio, serie_fin, packs_fin]
  salidas,     \* stock.salidas_qr: set of [lote, nro_serie, unit_type, packs_qty]
  outbox,      \* stock.sheets_outbox: sequence of [id, payload], id ascending
  next_id,     \* next value of the BIGSERIAL of sheets_outbox
  delivered,   \* ids the sink acknowledged with ok = true, in order of arrival
  res          \* what the last handler of escaner.py did and reported

evars == <<stock_pp, salidas, outbox, next_id, delivered, res>>

VARIABLES
  stock,       \* produccion.stock: set of [id_producto, lote, nro_serie, tipo_unidad, packs]
  bajas,       \* produccion.productos_bajas: sequence of
               \*   [id_producto, stock_lote, cantidad, tipo_unidad, qr_ns]; qr_ns is not a
               \*   column: it remembers the serial of the QR that caused the row
  sheet,       \* produccion.sheet: id_producto -> [present, stock_pallets, stock_packs]
  posts,       \* number of POSTs salida.py made to the web app
  sres,        \* what the last handler of salida.py did and reported
  station,     \* station -> the statement its salida.py is at within baja_manual or
               \*   baja_por_qr, with the locals of the call (followed statement by
               \*   statement in SpecStations only)
  gen          \* generacionEimpresion.py on one station: descripcion (the products
               \*   read at start), cache (the gen_ultimo_serie entries of config.json),
               \*   emitted (the labels of the PDFs saved so far, in order), last (what
               \*   the last run did)

svars == <<stock, bajas, sheet, posts, sres, station, gen>>

vars == <<stock_pp, salidas, outbox, next_id, delivered, res,
          stock, bajas, sheet, posts, sres, station, gen>>

\* ----------------------------------------------------------- tables at start
RangeRows ==
  {r \in [lote : Lotes, serie_inicio : Series, serie_fin : Series, packs_fin : 0..MaxPacks] :
     r.serie_inicio <= r.serie_fin}

RowRank(r) ==
  LET K == MaxSerie + MaxPacks + 1
  IN ((r.lote * K + r.serie_inicio) * K + r.serie_fin) * K + r.packs_fin

\* The ids of stock_pp are opaque: the rows found at start are numbered in one
\* canonical order.
InitialTables ==
  UNION {
    { {[id |-> i, lote |-> f[i].lote, serie_inicio |-> f[i].serie_inicio,
        serie_fin |-> f[i].serie_fin, packs_fin |-> f[i].packs_fin] : i \in 1..n} :
      f \in {g \in [1..n -> RangeRows] :
               \A i \in 1..n : \A j \in 1..n : i < j => RowRank(g[i]) <= RowRank(g[j])} }
    : n \in 0..MaxRanges }

SalidaRows ==
  {s \in [lote : Lotes, nro_serie : Series, unit_type : UnitTypes, packs_qty : 0..MaxPacks] :
     (s.unit_type = "pallet") <=> (s.packs_qty = 0)}

\* CONSTRAINT uq_salidas_qr UNIQUE (id_producto, lote, nro_serie)
uq_salidas_qr(S) ==
  \A a \in S : \A b \in S : (a.lote = b.lote /\ a.nro_serie = b.nro_serie) => a = b

\* A salida is recorded against a serial that was scanned in: it lies in an
\* inbound range of its lot, and it is of type packs, with the packs of the
\* range, when it is the last serial of a range with trailing packs, and a
\* pallet otherwise.
recorded_against(tbl, s) ==
  \E r \in tbl :
    /\ r.lote = s.lote /\ r.serie_inicio <= s.nro_serie /\ s.nro_serie <= r.serie_fin
    /\ IF r.packs_fin > 0 /\ s.nro_serie = r.serie_fin
       THEN s.unit_type = "packs" /\ s.packs_qty = r.packs_fin
       ELSE s.unit_type = "pallet" /\ s.packs_qty = 0

InitialSalidas(tbl) ==
  {S \in SubsetsUpTo(SalidaRows, MaxSalidas) :
     uq_salidas_qr(S) /\ \A s \in S : recorded_against(tbl, s)}

\* ------------------------------------------------------------ sheets outbox
outbox_count(ob) == Len(ob)

queue_outbox(ob, nid, payload) == Append(ob, [id |-> nid, payload |-> payload])

\* Variant: ORDER BY id DESC.
pop_outbox_batch_desc(ob, limit) ==
  LET n == Min(Len(ob), limit) IN [i \in 1..n |-> ob[Len(ob) + 1 - i]]

\* Variant: the first row of the batch is skipped.
pop_outbox_batch_skip_first(ob, limit) == SubSeq(ob, 2, Min(Len(ob), limit))

\* Variant: the LIMIT left out.
pop_outbox_batch_no_limit(ob, limit) == ob

\* SELECT id, payload ... ORDER BY id ASC LIMIT %s
pop_outbox_batch(ob, limit) == SubSeq(ob, 1, Min(Len(ob), limit))

\* DELETE FROM sheets_outbox WHERE id = %s
delete_outbox_id(ob, rid) == SelectSeq(ob, LAMBDA m : m.id # rid)

\* What the web app may answer to one POST.
SinkResponses ==
  {"ok_true", "ok_false", "ok_missing", "not_dict", "not_json", "http_error", "net_error"}
SinkFailures == SinkResponses \ {"ok_true"}

\* Variant: an HTTP error answered as ok = false instead of raised.
send_to_sheets_no_raise(resp) ==
  CASE resp = "ok_true"    -> [raised |-> FALSE, isdict |-> TRUE,  ok |-> "true"]
    [] resp = "ok_false"   -> [raised |-> FALSE, isdict |-> TRUE,  ok |-> "false"]
    [] resp = "ok_missing" -> [raised |-> FALSE, isdict |-> TRUE,  ok |-> "none"]
    [] resp = "not_dict"   -> [raised |-> FALSE, isdict |-> FALSE, ok |-> "none"]
    [] resp = "not_json"   -> [raised |-> FALSE, isdict |-> TRUE,  ok |-> "false"]
    [] resp = "http_error" -> [raised |-> FALSE, isdict |-> TRUE,  ok |-> "false"]
    [] resp = "net_error"  -> [raised |-> TRUE,  isdict |-> FALSE, ok |-> "none"]

\* send_to_sheets: the parsed answer, or the exception that leaves the call.
send_to_sheets(resp) ==
  CASE resp = "ok_true"    -> [raised |-> FALSE, isdict |-> TRUE,  ok |-> "true"]
    [] resp = "ok_false"   -> [raised |-> FALSE, isdict |-> TRUE,  ok |-> "false"]
    [] resp = "ok_missing" -> [raised |-> FALSE, isdict |-> TRUE,  ok |-> "none"]
    [] resp = "not_dict"   -> [raised |-> FALSE, isdict |-> FALSE, ok |-> "none"]
    [] resp = "not_json"   -> [raised |-> FALSE, isdict |-> TRUE,  ok |-> "false"]
    [] resp = "http_error" -> [raised |-> TRUE,  isdict |-> FALSE, ok |-> "none"]
    [] resp = "net_error"  -> [raised |-> TRUE,  isdict |-> FALSE, ok |-> "none"]

\* Variant: any dict that does not say ok = false counts as success.
is_ok_unless_false(r) == r.isdict /\ r.ok # "false"

\* isinstance(res, dict) and res.get("ok") is True
is_ok(r) == r.isdict /\ r.ok = "true"

\* One iteration of the for loop of flush_outbox, on the row `row` with the
\* answer `resp` of the sink to its POST; prev is the state the loop is in.
\* status is "running" while the loop goes on, "returned" after the return of a
\* refused delivery, "raised" after an exception left the loop.
flush_step(prev, row, resp) ==
  LET rid == row.id
      r == send_to_sheets(resp)
      att == Append(prev.attempted, rid)
  IN IF r.raised
     THEN [prev EXCEPT !.status = "raised", !.attempted = att, !.fail_resp = resp]
     ELSE IF is_ok(r)
          THEN [prev EXCEPT !.outbox = delete_outbox_id(prev.outbox, rid),
                            !.sent = prev.sent + 1, !.attempted = att]
          ELSE [prev EXCEPT !.status = "returned", !.attempted = att, !.fail_resp = resp]

\* The answer to the n-th POST of a flush: what the sink said, or, when it says
\* nothing more, the timeout of urlopen, which leaves the call as an exception.
answer_of(resps, n) == IF n <= Len(resps) THEN resps[n] ELSE "net_error"

RECURSIVE flush_loop(_, _, _, _)
\* The for loop of flush_outbox over the batch `rows`, after its first n
\* iterations; resps[i] is the answer of the sink to the i-th POST of this
\* flush. (The state after n - 1 iterations is bound, so that it is computed
\* once.)
flush_loop(ob, rows, resps, n) ==
  IF n = 0
  THEN [outbox |-> ob, sent |-> 0, status |-> "running", attempted |-> <<>>,
        fail_resp |-> "none"]
  ELSE CHOOSE st \in {IF prev.status # "running" THEN prev
                                                 ELSE flush_step(prev, rows[n], answer_of(resps, n)) :
                      prev \in {flush_loop(ob, rows, resps, n - 1)}} : TRUE

\* flush_outbox: the batch, the loop over all of it, and the return of the
\* count once the loop is through.
flush_outbox(ob, resps) ==
  CHOOSE st \in {[f EXCEPT !.status = IF f.status = "running" THEN "returned" ELSE f.status] :
                   f \in {flush_loop(ob, rows, resps, Len(rows)) :
                           rows \in {pop_outbox_batch(ob, BatchLimit)}}} : TRUE

\* The conversations the sink can have with one flush of n messages: it answers
\* each POST it receives; after the first failure no further POST is made.
SinkBehaviours(n) ==
  {[i \in 1..n |-> "ok_true"]} \cup
  {[i \in 1..k |-> IF i < k THEN "ok_true" ELSE f] : k \in 1..n, f \in SinkFailures}

\* The one conversation of a sink that acknowledges every POST with ok = true.
HealthySink(n) == {[i \in 1..n |-> "ok_true"]}

\* The ids of this flush that the sink acknowledged with ok = true.
Acked(rows, resps, attempted) ==
  SelectSeq(attempted, LAMBDA a :
     \E i \in 1..Len(rows) : i <= Len(resps) /\ rows[i].id = a /\ resps[i] = "ok_true")

\* ------------------------------------------------- stock logic (escaner.py)
\* WHERE id_producto = %s AND lote = %s
RowsOfLote(tbl, lote) == {r \in tbl : r.lote = lote}

\* Variant: the + 1 of the inclusive span left out.
pallets_of_row_exclusive(r) ==
  (r.serie_fin - r.serie_inicio) - (IF r.packs_fin > 0 THEN 1 ELSE 0)

\* Variant: the last serial counted as a full pallet whatever packs_fin is.
pallets_of_row_span(r) == r.serie_fin - r.serie_inicio + 1

\* (serie_fin - serie_inicio + 1) - CASE WHEN packs_fin > 0 THEN 1 ELSE 0 END
pallets_of_row(r) ==
  (r.serie_fin - r.serie_inicio + 1) - (IF r.packs_fin > 0 THEN 1 ELSE 0)

compute_ingresos_totals(tbl, lote) ==
  LET S == RowsOfLote(tbl, lote)
  IN [pallets |-> SumSet(S, [r \in S |-> pallets_of_row(r)]),
      packs   |-> SumSet(S, [r \in S |-> r.packs_fin])]

compute_salidas_totals(sal, lote) ==
  LET S == {s \in sal : s.lote = lote}
  IN [pallets_out |-> SumSet(S, [s \in S |-> IF s.unit_type = "pallet" THEN 1 ELSE 0]),
      packs_out   |-> SumSet(S, [s \in S |-> IF s.unit_type = "packs" THEN s.packs_qty ELSE 0])]

\* Variant: the salidas are not subtracted.
compute_net_stock_ingresos_only(tbl, sal, lote) ==
  LET i == compute_ingresos_totals(tbl, lote)
  IN [net_p |-> i.pallets, net_pk |-> i.packs]

compute_net_stock(tbl, sal, lote) ==
  LET i == compute_ingresos_totals(tbl, lote)
      o == compute_salidas_totals(sal, lote)
  IN [net_p |-> i.pallets - o.pallets_out, net_pk |-> i.packs - o.packs_out]

build_payload_for_product_lote_net(tbl, sal, lote) ==
  LET n == compute_net_stock(tbl, sal, lote)
  IN [type |-> "scan_pp", lote |-> lote, stock_pallets |-> n.net_p, stock_packs |-> n.net_pk]

\* Variant: ORDER BY serie_fin ASC.
get_last_ingreso_ranges_asc(tbl, lote) ==
  LET S == RowsOfLote(tbl, lote)
      n == Cardinality(S)
  IN {q \in [1..n -> S] :
        /\ \A i \in 1..n : \A j \in 1..n : i # j => q[i] # q[j]
        /\ \A i \in 1..n : \A j \in 1..n : i < j => q[i].serie_fin <= q[j].serie_fin}

\* ORDER BY serie_fin DESC: every order of the lot's rows with serie_fin
\* descending; rows with equal serie_fin come in any order.
get_last_ingreso_ranges(tbl, lote) ==
  LET S == RowsOfLote(tbl, lote)
      n == Cardinality(S)
  IN {q \in [1..n -> S] :
        /\ \A i \in 1..n : \A j \in 1..n : i # j => q[i] # q[j]
        /\ \A i \in 1..n : \A j \in 1..n : i < j => q[i].serie_fin >= q[j].serie_fin}

\* Variant: only new_serie_fin decides between UPDATE and DELETE.
adjust_or_delete_range_serie_only(tbl, row_id, new_serie_fin, new_packs_fin) ==
  IF new_serie_fin # None
  THEN {IF r.id = row_id THEN [r EXCEPT !.serie_fin = new_serie_fin] ELSE r : r \in tbl}
  ELSE {r \in tbl : r.id # row_id}

\* Variant: an UPDATE of serie_fin also clears packs_fin.
adjust_or_delete_range_clear_packs(tbl, row_id, new_serie_fin, new_packs_fin) ==
  IF new_serie_fin # None \/ new_packs_fin # None
  THEN {IF r.id = row_id
        THEN [r EXCEPT !.serie_fin = IF new_serie_fin # None THEN new_serie_fin ELSE @,
                       !.packs_fin = IF new_packs_fin # None THEN new_packs_fin ELSE 0]
        ELSE r : r \in tbl}
  ELSE {r \in tbl : r.id # row_id}

\* UPDATE ... SET serie_fin / packs_fin WHERE id, or DELETE ... WHERE id when
\* neither new value is given.
adjust_or_delete_range(tbl, row_id, new_serie_fin, new_packs_fin) ==
  IF new_serie_fin # None \/ new_packs_fin # None
  THEN {IF r.id = row_id
        THEN [r EXCEPT !.serie_fin = IF new_serie_fin # None THEN new_serie_fin ELSE @,
                       !.packs_fin = IF new_packs_fin # None THEN new_packs_fin ELSE @]
        ELSE r : r \in tbl}
  ELSE {r \in tbl : r.id # row_id}

\* Variant: the bounds of the range taken as exclusive.
check_if_range_has_salidas_exclusive(sal, lote, inicio, fin) ==
  Cardinality({s \in sal : s.lote = lote /\ s.nro_serie > inicio /\ s.nro_serie < fin}) > 0

\* Variant: only the salidas of type pallet counted.
check_if_range_has_salidas_pallets_only(sal, lote, inicio, fin) ==
  Cardinality({s \in sal : s.lote = lote /\ s.nro_serie >= inicio /\ s.nro_serie <= fin
                            /\ s.unit_type = "pallet"}) > 0

\* SELECT COUNT(*) ... nro_serie BETWEEN inicio AND fin; TRUE when it raises.
check_if_range_has_salidas(sal, lote, inicio, fin) ==
  Cardinality({s \in sal : s.lote = lote /\ s.nro_serie >= inicio /\ s.nro_serie <= fin}) > 0

\* Variant: the pallet counter compared for both unit types.
insufficient_stock_pallets_only(net, unit_type, cantidad) == net.net_p < cantidad

\* if net_p < cantidad / if net_pk < cantidad
insufficient_stock(net, unit_type, cantidad) ==
  IF unit_type = "pallet" THEN net.net_p < cantidad ELSE net.net_pk < cantidad

\* Variant: the last serial always taken for a partial pallet.
pallets_in_range_of_always_partial(inicio, fin, packs_fin) == (fin - inicio + 1) - 1

\* pallets_in_range = (fin - inicio + 1) - (1 if packs_fin > 0 else 0)
pallets_in_range_of(inicio, fin, packs_fin) ==
  (fin - inicio + 1) - (IF packs_fin > 0 THEN 1 ELSE 0)

\* Variant: off by one.
new_fin_of_off_by_one(fin, reduce_by) == fin - reduce_by + 1

\* Variant: one serial too many taken off.
new_fin_of_one_more(fin, reduce_by) == fin - reduce_by - 1

\* new_fin = fin - reduce_by
new_fin_of(fin, reduce_by) == fin - reduce_by

\* Variant: the trailing packs of a visited range all taken.
new_packs_of_all(packs_fin, reduce_by) == 0

\* new_packs = packs_fin - reduce_by
new_packs_of(packs_fin, reduce_by) == packs_fin - reduce_by

RECURSIVE walk_ranges(_, _, _, _, _, _, _, _)
\* The while loop of eliminar_batch_ultimos over the snapshot `ranges`.
walk_ranges(tbl, sal, lote, unit_type, ranges, i, remaining, adjusted_ids) ==
  IF ~(remaining > 0 /\ i <= Len(ranges))
  THEN [tbl |-> tbl, remaining |-> remaining, adjusted_ids |-> adjusted_ids, err |-> "ok"]
  ELSE
    LET row_id == ranges[i].id
        inicio == ranges[i].serie_inicio
        fin == ranges[i].serie_fin
        packs_fin == ranges[i].packs_fin
    IN
    IF check_if_range_has_salidas(sal, lote, inicio, fin)
    THEN [tbl |-> tbl, remaining |-> remaining, adjusted_ids |-> adjusted_ids,
          err |-> "RangeAlreadyConsumed"]
    ELSE IF unit_type = "packs"
    THEN IF packs_fin = 0
         THEN walk_ranges(tbl, sal, lote, unit_type, ranges, i + 1, remaining, adjusted_ids)
         ELSE LET reduce_by == Min(remaining, packs_fin)
                  new_packs == new_packs_of(packs_fin, reduce_by)
              IN walk_ranges(adjust_or_delete_range(tbl, row_id, None, new_packs),
                             sal, lote, unit_type, ranges, i + 1,
                             remaining - reduce_by, Append(adjusted_ids, row_id))
    ELSE LET pallets_in_range == pallets_in_range_of(inicio, fin, packs_fin)
         IN IF pallets_in_range <= 0
            THEN walk_ranges(tbl, sal, lote, unit_type, ranges, i + 1, remaining, adjusted_ids)
            ELSE LET reduce_by == Min(remaining, pallets_in_range)
                     new_fin == new_fin_of(fin, reduce_by)
                 IN walk_ranges(IF reduce_by = pallets_in_range
                                THEN adjust_or_delete_range(tbl, row_id, None, None)
                                ELSE adjust_or_delete_range(tbl, row_id, new_fin, None),
                                sal, lote, unit_type, ranges, i + 1,
                                remaining - reduce_by, Append(adjusted_ids, row_id))

\* new_ranges[0][2] if new_ranges else None
new_last_serie_of(tbl, lote) ==
  LET S == RowsOfLote(tbl, lote)
  IN IF S = {} THEN None
     ELSE (CHOOSE r \in S : \A q \in S : q.serie_fin <= r.serie_fin).serie_fin

\* eliminar_batch_ultimos with `ranges` the rows its SELECT returned.  The
\* statements commit one by one (autocommit): on an error the table is as the
\* walk left it.
eliminar_batch_ultimos(tbl, sal, ob, nid, lote, unit_type, cantidad, ranges) ==
  LET net == compute_net_stock(tbl, sal, lote)
      fail(e, t, ids) == [err |-> e, stock_pp |-> t, outbox |-> ob, next_id |-> nid,
                          adjusted_ids |-> ids, new_last_serie |-> None]
  IN IF insufficient_stock(net, unit_type, cantidad)
     THEN fail("InsufficientStock", tbl, <<>>)
     ELSE IF Len(ranges) = 0
     THEN fail("NoRanges", tbl, <<>>)
     ELSE LET w == walk_ranges(tbl, sal, lote, unit_type, ranges, 1, cantidad, <<>>)
          IN IF w.err # "ok"
             THEN fail(w.err, w.tbl, w.adjusted_ids)
             ELSE IF w.remaining > 0
             THEN fail("IncompleteRollback", w.tbl, w.adjusted_ids)
             ELSE [err |-> "ok", stock_pp |-> w.tbl,
                   outbox |-> queue_outbox(ob, nid,
                                 build_payload_for_product_lote_net(w.tbl, sal, lote)),
                   next_id |-> nid + 1,
                   adjusted_ids |-> w.adjusted_ids,
                   new_last_serie |-> new_last_serie_of(w.tbl, lote)]

\* ---------------------------------------------------------------- handlers
NoRes ==
  [op |-> "none", lote |-> None, unit_type |-> "none", cantidad |-> None,
   outcome |-> "none", net_p_before |-> 0, net_pk_before |-> 0,
   adjusted_ids |-> <<>>, new_last_serie |-> None,
   flush |-> "none", sent |-> 0, attempted |-> <<>>, fail_resp |-> "none"]


\* ------------------------------------------------- stock logic (salida.py)
Productos == 1..NumProductos
LotesStock == 1..NumLotesStock
SeriesStock == 1..MaxSerieStock

StockRows ==
  {r \in [id_producto : Productos, lote : LotesStock, nro_serie : SeriesStock,
          tipo_unidad : {"PALLET", "PACKS"}, packs : 0..MaxPacksStock] :
     r.tipo_unidad = "PALLET" => r.packs = 0}

\* Rows found at start: written before init_tables added the column
\* tipo_unidad, they have it NULL.
BajaRows ==
  [id_producto : Productos, stock_lote : LotesStock, cantidad : 1..MaxCantidadBaja,
   tipo_unidad : {"NULL"}, qr_ns : {None}]

\* The keys a label carries: serial number, product id, description, lot,
\* creation date, expiry date.
RequiredKeys == {"NS", "PRD", "DSC", "LOT", "FEC", "VTO"}

\* A scanned text, after the split on "|" and on the first "=": the values of the
\* keys NS, PRD and LOT, None for a key that is absent or empty, and for DSC, FEC
\* and VTO whether they have a value (1) or not (None); markers is whether the
\* text has a "|" and a "=" at all.  The texts tried are the complete
\* ones (of a product in the catalogue or not) and those with one defect.
QrPayloads ==
  LET All == [markers : BOOLEAN, NS : SeriesStock \cup {None},
              PRD : (1..(NumProductos + 1)) \cup {None}, LOT : LotesStock \cup {None},
              DSC : {1, None}, FEC : {1, None}, VTO : {1, None}]
      Defects(q) == Cardinality({k \in RequiredKeys : q[k] = None})
                    + (IF q.markers THEN 0 ELSE 1)
  IN {q \in All : Defects(q) = 0
                  \/ (Defects(q) = 1 /\ \A k \in {"NS", "PRD", "LOT"} : q[k] \in {1, None})}

\* The required keys that a scanned text lacks, or has with an empty value.
MissingKeys(raw) == {k \in RequiredKeys : raw[k] = None}

parse_qr_payload(raw) ==
  IF raw.markers
  THEN IF raw.NS = None \/ raw.PRD = None \/ raw.LOT = None
       THEN [err |-> "InvalidPayload", nro_serie |-> None, id_producto |-> None, lote |-> None]
       ELSE [err |-> "ok", nro_serie |-> raw.NS, id_producto |-> raw.PRD, lote |-> raw.LOT]
  ELSE [err |-> "UnrecognizedFormat", nro_serie |-> None, id_producto |-> None, lote |-> None]

\* Variant: the serial left out of the WHERE clause.
qr_exists_in_stock_any_serie(stk, id_producto, lote, nro_serie) ==
  {r \in stk : r.id_producto = id_producto /\ r.lote = lote}

\* The rows the SELECT ... LIMIT 1 of qr_exists_in_stock may return.
qr_exists_in_stock(stk, id_producto, lote, nro_serie) ==
  {r \in stk : r.id_producto = id_producto /\ r.lote = lote /\ r.nro_serie = nro_serie}

SumBajas(bj, I) == SumSet(I, [i \in I |-> bj[i].cantidad])

\* Variant: the packs already taken out are not subtracted.
compute_net_available_lote_no_packs_out(stk, bj, id_producto, lote) ==
  LET in_pallets == Cardinality({r \in stk : r.id_producto = id_producto /\ r.lote = lote
                                             /\ r.tipo_unidad = "PALLET"})
      SP == {r \in stk : r.id_producto = id_producto /\ r.lote = lote
                         /\ r.tipo_unidad = "PACKS"}
      in_packs == SumSet(SP, [r \in SP |-> r.packs])
      out_pallets == SumBajas(bj, {i \in 1..Len(bj) :
                         /\ bj[i].id_producto = id_producto /\ bj[i].stock_lote = lote
                         /\ bj[i].tipo_unidad \in {"PALLET", "NULL"}})
  IN [net_pallets |-> Max(in_pallets - out_pallets, 0),
      net_packs   |-> Max(in_packs, 0)]

compute_net_available_lote(stk, bj, id_producto, lote) ==
  LET in_pallets == Cardinality({r \in stk : r.id_producto = id_producto /\ r.lote = lote
                                             /\ r.tipo_unidad = "PALLET"})
      SP == {r \in stk : r.id_producto = id_producto /\ r.lote = lote
                         /\ r.tipo_unidad = "PACKS"}
      in_packs == SumSet(SP, [r \in SP |-> r.packs])
      out_pallets == SumBajas(bj, {i \in 1..Len(bj) :
                         /\ bj[i].id_producto = id_producto /\ bj[i].stock_lote = lote
                         /\ bj[i].tipo_unidad \in {"PALLET", "NULL"}})
      out_packs == SumBajas(bj, {i \in 1..Len(bj) :
                         /\ bj[i].id_producto = id_producto /\ bj[i].stock_lote = lote
                         /\ bj[i].tipo_unidad = "PACKS"})
  IN [net_pallets |-> Max(in_pallets - out_pallets, 0),
      net_packs   |-> Max(in_packs - out_packs, 0)]

compute_net_totals_product(stk, bj, id_producto) ==
  LET in_pallets == Cardinality({r \in stk : r.id_producto = id_producto
                                             /\ r.tipo_unidad = "PALLET"})
      SP == {r \in stk : r.id_producto = id_producto /\ r.tipo_unidad = "PACKS"}
      in_packs == SumSet(SP, [r \in SP |-> r.packs])
      out_pallets == SumBajas(bj, {i \in 1..Len(bj) :
                         /\ bj[i].id_producto = id_producto
                         /\ bj[i].tipo_unidad \in {"PALLET", "NULL"}})
      out_packs == SumBajas(bj, {i \in 1..Len(bj) :
                         /\ bj[i].id_producto = id_producto
                         /\ bj[i].tipo_unidad = "PACKS"})
  IN [net_pallets |-> Max(in_pallets - out_pallets, 0),
      net_packs   |-> Max(in_packs - out_packs, 0)]

upsert_sheet(sh, id_producto, stock_pallets, stock_packs) ==
  [sh EXCEPT ![id_producto] =
     [present |-> TRUE, stock_pallets |-> stock_pallets, stock_packs |-> stock_packs]]

\* INSERT INTO productos_bajas: no nro_serie column, no uniqueness constraint.
registrar_baja(bj, id_producto, lote, cantidad, tipo_unidad, qr_ns) ==
  Append(bj, [id_producto |-> id_producto, stock_lote |-> lote, cantidad |-> cantidad,
              tipo_unidad |-> tipo_unidad, qr_ns |-> qr_ns])

\* _post_json_to_webapp: always a dict; every failure becomes ok = False.
post_json_to_webapp(resp) ==
  CASE resp = "ok_true"    -> [isdict |-> TRUE,  ok |-> "true"]
    [] resp = "ok_false"   -> [isdict |-> TRUE,  ok |-> "false"]
    [] resp = "ok_missing" -> [isdict |-> TRUE,  ok |-> "none"]
    [] resp = "not_dict"   -> [isdict |-> FALSE, ok |-> "none"]
    [] resp = "not_json"   -> [isdict |-> TRUE,  ok |-> "false"]
    [] resp = "http_error" -> [isdict |-> TRUE,  ok |-> "false"]
    [] resp = "net_error"  -> [isdict |-> TRUE,  ok |-> "false"]

\* refresh_sheet_everywhere: the projection row, then one POST; resp is the
\* answer of the web app to it.
refresh_sheet_everywhere(stk, bj, sh, id_producto, resp) ==
  LET n == compute_net_totals_product(stk, bj, id_producto)
      r == post_json_to_webapp(resp)
  IN [sheet |-> upsert_sheet(sh, id_producto, n.net_pallets, n.net_packs),
      net_pallets |-> n.net_pallets, net_packs |-> n.net_packs,
      warn |-> ~(r.isdict /\ r.ok = "true")]

\* The checks of baja_por_qr once the row of the QR is known.
baja_por_qr_checks(stk, bj, qr, row) ==
  LET tipo_unidad == IF row.tipo_unidad = "PACKS" THEN "PACKS" ELSE "PALLET"
      cantidad == IF row.tipo_unidad = "PACKS"
                  THEN (IF row.packs > 0 THEN row.packs ELSE 1)
                  ELSE 1
      net == compute_net_available_lote(stk, bj, qr.id_producto, qr.lote)
  IN [tipo_unidad |-> tipo_unidad, cantidad |-> cantidad,
      err |-> IF tipo_unidad = "PALLET" /\ net.net_pallets < 1 THEN "InsufficientStock"
              ELSE IF tipo_unidad = "PACKS" /\ net.net_packs < cantidad
                   THEN "InsufficientStock"
                   ELSE "ok"]

\* The checks of baja_manual.
baja_manual_checks(stk, bj, id_producto, lote, tipo, cantidad) ==
  LET tipo_unidad == IF tipo = "pallet" THEN "PALLET" ELSE "PACKS"
      net == compute_net_available_lote(stk, bj, id_producto, lote)
  IN [tipo_unidad |-> tipo_unidad, cantidad |-> cantidad,
      err |-> IF tipo \notin {"pallet", "packs"} THEN "TipoInvalido"
              ELSE IF cantidad <= 0 THEN "CantidadInvalida"
              ELSE IF tipo_unidad = "PALLET" /\ net.net_pallets < cantidad
                   THEN "InsufficientStock"
              ELSE IF tipo_unidad = "PACKS" /\ net.net_packs < cantidad
                   THEN "InsufficientStock"
              ELSE "ok"]

\* One row per labelled unit ("modelo por fila/serie").
InitialStock ==
  {S \in SubsetsUpTo(StockRows, MaxStockRows) :
     \A a \in S : \A b \in S :
       (a.id_producto = b.id_producto /\ a.lote = b.lote /\ a.nro_serie = b.nro_serie)
         => a = b}

NoSres ==
  [op |-> "none", outcome |-> "none", id_producto |-> None, lote |-> None, ns |-> None,
   tipo_unidad |-> "none", cantidad |-> None, net_pallets |-> 0, net_packs |-> 0,
   warn |-> FALSE, missing |-> {}]

Stations == 1..NumStations

\* The generator not started: no product read, nothing cached, nothing emitted.
NoGen ==
  [descripcion |-> <<>>, cache |-> <<>>, emitted |-> <<>>,
   last |-> [op |-> "none", id_producto |-> None, lote |-> None, cantidad |-> None,
             start |-> None, write |-> "none"]]

\* A station between two calls.
IdleStation ==
  [pc |-> "idle", id_producto |-> None, lote |-> None, tipo_unidad |-> "none",
   cantidad |-> None, qr_ns |-> None]

NoSheet == [p \in Productos |-> [present |-> FALSE, stock_pallets |-> 0, stock_packs |-> 0]]

InitSalidaIdle ==
  /\ stock = {}
  /\ bajas = <<>>
  /\ sheet = NoSheet
  /\ posts = 0
  /\ sres = NoSres
  /\ station = [s \in Stations |-> IdleStation]
  /\ gen = NoGen

InitEscanerIdle ==
  /\ stock_pp = {}
  /\ salidas = {}
  /\ outbox = <<>>
  /\ next_id = 1
  /\ delivered = <<>>
  /\ res = NoRes

InitSalida ==
  /\ InitEscanerIdle
  /\ stock \in InitialStock
  /\ bajas \in {<<>>} \cup {<<b>> : b \in BajaRows}
  /\ sheet = NoSheet
  /\ posts = 0
  /\ sres = NoSres
  /\ station = [s \in Stations |-> IdleStation]
  /\ gen = NoGen

\* on_qr_scan: <Return> in the QR entry; baja_por_qr.
on_qr_scan ==
  \E raw \in QrPayloads :
  \E qr \in {parse_qr_payload(raw)} :
    LET s0 == [NoSres EXCEPT !.op = "qr", !.id_producto = qr.id_producto,
                             !.lote = qr.lote, !.ns = qr.nro_serie,
                             !.missing = MissingKeys(raw)]
    IN
    IF qr.err # "ok"
    THEN /\ sres' = [s0 EXCEPT !.outcome = qr.err]
         /\ UNCHANGED <<stock, bajas, sheet, posts>>
    ELSE
      IF qr_exists_in_stock(stock, qr.id_producto, qr.lote, qr.nro_serie) = {}
      THEN /\ sres' = [s0 EXCEPT !.outcome = "SerialNotFound"]
           /\ UNCHANGED <<stock, bajas, sheet, posts>>
      ELSE
        \E row \in qr_exists_in_stock(stock, qr.id_producto, qr.lote, qr.nro_serie) :
        \E c \in {baja_por_qr_checks(stock, bajas, qr, row)} :
          LET s1 == [s0 EXCEPT !.tipo_unidad = c.tipo_unidad, !.cantidad = c.cantidad]
          IN
          IF c.err # "ok"
          THEN /\ sres' = [s1 EXCEPT !.outcome = c.err]
               /\ UNCHANGED <<stock, bajas, sheet, posts>>
          ELSE
            /\ Len(bajas) < MaxBajas
            /\ \E resp \in SinkResponses :
               \E bj \in {registrar_baja(bajas, qr.id_producto, qr.lote, c.cantidad,
                                         c.tipo_unidad, qr.nro_serie)} :
               \E f \in {refresh_sheet_everywhere(stock, bj, sheet, qr.id_producto, resp)} :
                 /\ bajas' = bj
                 /\ sheet' = f.sheet
                 /\ posts' = posts + 1
                 /\ sres' = [s1 EXCEPT !.outcome = "ok", !.net_pallets = f.net_pallets,
                                       !.net_packs = f.net_packs, !.warn = f.warn]
                 /\ UNCHANGED stock

\* on_manual_baja: the "EJECUTAR BAJA MANUAL" button; baja_manual.
on_manual_baja ==
  \E id_producto \in Productos, lote \in LotesStock, tipo \in UnitTypes,
     cantidad \in 0..MaxCantidadBaja :
  \E c \in {baja_manual_checks(stock, bajas, id_producto, lote, tipo, cantidad)} :
    LET s1 == [NoSres EXCEPT !.op = "manual", !.id_producto = id_producto, !.lote = lote,
                             !.tipo_unidad = c.tipo_unidad, !.cantidad = cantidad]
    IN
    IF c.err # "ok"
    THEN /\ sres' = [s1 EXCEPT !.outcome = c.err]
         /\ UNCHANGED <<stock, bajas, sheet, posts>>
    ELSE
      /\ Len(bajas) < MaxBajas
      /\ \E resp \in SinkResponses :
         \E bj \in {registrar_baja(bajas, id_producto, lote, cantidad, c.tipo_unidad, None)} :
         \E f \in {refresh_sheet_everywhere(stock, bj, sheet, id_producto, resp)} :
           /\ bajas' = bj
           /\ sheet' = f.sheet
           /\ posts' = posts + 1
           /\ sres' = [s1 EXCEPT !.outcome = "ok", !.net_pallets = f.net_pallets,
                                 !.net_packs = f.net_packs, !.warn = f.warn]
           /\ UNCHANGED stock

NextSalida ==
  \/ on_qr_scan /\ UNCHANGED evars /\ UNCHANGED <<station, gen>>
  \/ on_manual_baja /\ UNCHANGED evars /\ UNCHANGED <<station, gen>>

SpecSalida == InitSalida /\ [][NextSalida]_vars

Init ==
  /\ stock_pp \in InitialTables
  /\ salidas \in InitialSalidas(stock_pp)
  /\ outbox = <<>>
  /\ next_id = 1
  /\ delivered = <<>>
  /\ res = NoRes
  /\ InitSalidaIdle

\* on_batch_eliminar: the "Eliminar / Ajustar Batch" button.
on_batch_eliminar ==
  \E lote \in Lotes, unit_type \in UnitTypes, cantidad \in 0..MaxCantidad :
    LET r0 == [NoRes EXCEPT !.op = "eliminar", !.lote = lote, !.unit_type = unit_type,
                            !.cantidad = cantidad]
    IN
    IF cantidad <= 0
    THEN /\ res' = [r0 EXCEPT !.outcome = "CantidadInvalida"]
         /\ UNCHANGED <<stock_pp, salidas, outbox, next_id, delivered>>
    ELSE
      \E ranges \in get_last_ingreso_ranges(stock_pp, lote) :
      \E before \in {compute_net_stock(stock_pp, salidas, lote)} :
      \E e \in {eliminar_batch_ultimos(stock_pp, salidas, outbox, next_id,
                                       lote, unit_type, cantidad, ranges)} :
        LET r1 == [r0 EXCEPT !.outcome = e.err,
                             !.net_p_before = before.net_p,
                             !.net_pk_before = before.net_pk,
                             !.adjusted_ids = e.adjusted_ids,
                             !.new_last_serie = e.new_last_serie]
        IN
        IF e.err # "ok"
        THEN /\ stock_pp' = e.stock_pp
             /\ res' = r1
             /\ UNCHANGED <<salidas, outbox, next_id, delivered>>
        ELSE
          /\ next_id <= MaxMsgs
          /\ \E batch \in {pop_outbox_batch(e.outbox, BatchLimit)} :
             \E resps \in SinkBehaviours(Len(batch)) :
             \E f \in {flush_outbox(e.outbox, resps)} :
                  /\ stock_pp' = e.stock_pp
                  /\ next_id' = e.next_id
                  /\ outbox' = f.outbox
                  /\ delivered' = delivered \o Acked(batch, resps, f.attempted)
                  /\ res' = [r1 EXCEPT !.flush = f.status, !.sent = f.sent,
                                       !.attempted = f.attempted,
                                       !.fail_resp = f.fail_resp]
                  /\ UNCHANGED salidas

\* retry_flush: the "Reintentar envio a Sheets (outbox)" button.
retry_flush ==
  \E batch \in {pop_outbox_batch(outbox, BatchLimit)} :
  \E resps \in SinkBehaviours(Len(batch)) :
  \E f \in {flush_outbox(outbox, resps)} :
       /\ outbox' = f.outbox
       /\ delivered' = delivered \o Acked(batch, resps, f.attempted)
       /\ res' = [NoRes EXCEPT !.op = "retry", !.flush = f.status, !.sent = f.sent,
                               !.attempted = f.attempted, !.fail_resp = f.fail_resp]
       /\ UNCHANGED <<stock_pp, salidas, next_id>>

Next ==
  \/ on_batch_eliminar /\ UNCHANGED svars
  \/ retry_flush /\ UNCHANGED svars

Spec == Init /\ [][Next]_vars

\* ------------------------------------- two stations, statement by statement
\* Every station runs its own salida.py on its own autocommit connection
\* (pg_connect): each execute() of a call is a transaction of its own, and the
\* statements of two calls interleave in any order.

\* baja_manual up to its checks: the SELECTs of compute_net_available_lote.
station_check_manual(s) ==
  /\ station[s].pc = "idle"
  /\ \E id_producto \in Productos, lote \in LotesStock, tipo \in UnitTypes,
        cantidad \in 1..MaxCantidadBaja :
     \E c \in {baja_manual_checks(stock, bajas, id_producto, lote, tipo, cantidad)} :
       /\ c.err = "ok"
       /\ station' = [station EXCEPT ![s] =
                        [pc |-> "checked", id_producto |-> id_producto, lote |-> lote,
                         tipo_unidad |-> c.tipo_unidad, cantidad |-> cantidad,
                         qr_ns |-> None]]
  /\ UNCHANGED <<stock, bajas, sheet, posts, sres>>

\* baja_por_qr up to its checks: parse, qr_exists_in_stock and the SELECTs of
\* compute_net_available_lote.
station_check_qr(s) ==
  /\ station[s].pc = "idle"
  /\ \E raw \in QrPayloads :
     \E qr \in {parse_qr_payload(raw)} :
       /\ qr.err = "ok"
       /\ \E row \in qr_exists_in_stock(stock, qr.id_producto, qr.lote, qr.nro_serie) :
          \E c \in {baja_por_qr_checks(stock, bajas, qr, row)} :
            /\ c.err = "ok"
            /\ station' = [station EXCEPT ![s] =
                             [pc |-> "checked", id_producto |-> qr.id_producto,
                              lote |-> qr.lote, tipo_unidad |-> c.tipo_unidad,
                              cantidad |-> c.cantidad, qr_ns |-> qr.nro_serie]]
  /\ UNCHANGED <<stock, bajas, sheet, posts, sres>>

\* registrar_baja: the INSERT.
station_insert(s) ==
  /\ station[s].pc = "checked"
  /\ Len(bajas) < MaxBajas
  /\ bajas' = registrar_baja(bajas, station[s].id_producto, station[s].lote,
                             station[s].cantidad, station[s].tipo_unidad, station[s].qr_ns)
  /\ station' = [station EXCEPT ![s].pc = "inserted"]
  /\ UNCHANGED <<stock, sheet, posts, sres>>

\* refresh_sheet_everywhere, and the return to the handler.
station_refresh(s) ==
  /\ station[s].pc = "inserted"
  /\ \E resp \in SinkResponses :
     \E f \in {refresh_sheet_everywhere(stock, bajas, sheet, station[s].id_producto, resp)} :
       /\ sheet' = f.sheet
       /\ posts' = posts + 1
       /\ sres' = [NoSres EXCEPT !.op = IF station[s].qr_ns = None THEN "manual" ELSE "qr",
                                 !.outcome = "ok",
                                 !.id_producto = station[s].id_producto,
                                 !.lote = station[s].lote, !.ns = station[s].qr_ns,
                                 !.tipo_unidad = station[s].tipo_unidad,
                                 !.cantidad = station[s].cantidad,
                                 !.net_pallets = f.net_pallets,
                                 !.net_packs = f.net_packs, !.warn = f.warn]
  /\ station' = [station EXCEPT ![s] = IdleStation]
  /\ UNCHANGED <<stock, bajas>>

InitStations ==
  /\ InitEscanerIdle
  /\ stock \in InitialStock
  /\ bajas = <<>>
  /\ sheet = NoSheet
  /\ posts = 0
  /\ sres = NoSres
  /\ station = [s \in Stations |-> IdleStation]
  /\ gen = NoGen

NextStations ==
  \E s \in Stations :
    \/ station_check_manual(s) /\ UNCHANGED evars /\ UNCHANGED gen
    \/ station_check_qr(s) /\ UNCHANGED evars /\ UNCHANGED gen
    \/ station_insert(s) /\ UNCHANGED evars /\ UNCHANGED gen
    \/ station_refresh(s) /\ UNCHANGED evars /\ UNCHANGED gen

SpecStations == InitStations /\ [][NextStations]_vars

\* ------------------------------------------- texts (generator and parser)
\* A text is a sequence of characters; "nl" stands for the newline.
White == {" ", "nl"}

Contains(t, c) == \E i \in 1..Len(t) : t[i] = c

\* str.strip()
Strip(t) ==
  LET I == {i \in 1..Len(t) : t[i] \notin White}
  IN IF I = {} THEN <<>>
     ELSE SubSeq(t, CHOOSE i \in I : \A j \in I : i <= j, CHOOSE i \in I : \A j \in I : i >= j)

\* str.replace(a, b) for single characters
Replace(t, a, b) == [i \in 1..Len(t) |-> IF t[i] = a THEN b ELSE t[i]]

\* str.upper() on the letters used here
Upper(t) == [i \in 1..Len(t) |-> IF t[i] = "a" THEN "A" ELSE t[i]]

DigitChar(d) == <<"0", "1", "2", "3", "4", "5", "6", "7", "8", "9">>[d + 1]

IsDigits(t) == Len(t) > 0 /\ \A i \in 1..Len(t) : \E d \in 0..9 : DigitChar(d) = t[i]

RECURSIVE Digits(_)
\* str(n) / the digits of {n:d}, n >= 0
Digits(n) == IF n < 10 THEN <<DigitChar(n)>> ELSE Digits(n \div 10) \o <<DigitChar(n % 10)>>

\* the zero padding of {n:06d}
ZeroPad(t, width) == IF Len(t) >= width THEN t ELSE [i \in 1..(width - Len(t)) |-> "0"] \o t

RECURSIVE ToInt(_)
\* int(t) of a string of digits
ToInt(t) ==
  IF Len(t) = 0 THEN 0
  ELSE 10 * ToInt(SubSeq(t, 1, Len(t) - 1)) + (CHOOSE d \in 0..9 : DigitChar(d) = t[Len(t)])

RECURSIVE Split(_, _)
\* str.split(sep)
Split(t, sep) ==
  IF ~Contains(t, sep) THEN <<t>>
  ELSE LET i == CHOOSE i \in 1..Len(t) : t[i] = sep /\ \A j \in 1..(i - 1) : t[j] # sep
       IN <<SubSeq(t, 1, i - 1)>> \o Split(SubSeq(t, i + 1, Len(t)), sep)

\* The text of a lot known to the tables, 0 for any other text.
lote_of_text(t) ==
  IF \E l \in LotesStock : <<"0", DigitChar(l), "0", "1", "2", "6">> = t
  THEN CHOOSE l \in LotesStock : <<"0", DigitChar(l), "0", "1", "2", "6">> = t
  ELSE 0

\* k, v = p.split("=", 1)
key_of(part) ==
  SubSeq(part, 1, (CHOOSE i \in 1..Len(part) :
                     part[i] = "=" /\ \A j \in 1..(i - 1) : part[j] # "=") - 1)
value_of(part) ==
  SubSeq(part, (CHOOSE i \in 1..Len(part) :
                  part[i] = "=" /\ \A j \in 1..(i - 1) : part[j] # "=") + 1, Len(part))

\* data.get(key) after the loop over the parts: the stripped value of the last
\* part with that key, the empty text when no part has it.
data_get(parts, key) ==
  LET I == {i \in 1..Len(parts) :
              Contains(parts[i], "=") /\ Upper(Strip(key_of(parts[i]))) = key}
  IN IF I = {} THEN <<>>
     ELSE Strip(value_of(parts[CHOOSE i \in I : \A j \in I : j <= i]))

\* The scanned text as parse_qr_payload sees it after strip and the two splits
\* (an element of the kind of QrPayloads).  A value of NS or PRD that is not a
\* string of digits counts as absent (int() raises ValueError on it, a refusal as
\* well).
qr_fields(text) ==
  LET raw == Strip(text)
      parts == Split(raw, "|")
      num(v) == IF IsDigits(v) THEN ToInt(v) ELSE None
      has(v) == IF Len(v) > 0 THEN 1 ELSE None
  IN [markers |-> Contains(raw, "|") /\ Contains(raw, "="),
      NS  |-> num(data_get(parts, <<"N", "S">>)),
      PRD |-> num(data_get(parts, <<"P", "R", "D">>)),
      LOT |-> IF Len(data_get(parts, <<"L", "O", "T">>)) = 0 THEN None
              ELSE lote_of_text(data_get(parts, <<"L", "O", "T">>)),
      DSC |-> has(data_get(parts, <<"D", "S", "C">>)),
      FEC |-> has(data_get(parts, <<"F", "E", "C">>)),
      VTO |-> has(data_get(parts, <<"V", "T", "O">>))]

\* ---------------------------------------- label generator (generacionEimpresion.py)
\* numero_lote = strftime("%d%m%y"), fec_iso, vto_iso: the texts of day l.
numero_lote_of(l) == <<"0", DigitChar(l), "0", "1", "2", "6">>
fec_iso_of(l) == <<"2", "0", "2", "6", "-", "0", "1", "-", "0", DigitChar(l)>>
vto_iso_of(l) == <<"2", "0", "2", "6", "-", "0", "7", "-", "0", DigitChar(l)>>

\* The descriptions a product may have in produccion.productos.
DescChars == {"a", "|", "=", "nl"}
Descripciones == UNION {[1..n -> DescChars] : n \in 0..MaxDescLen}

\* desc_clean
desc_clean_of(descripcion) ==
  LET d == Strip(Replace(Replace(Replace(descripcion, "nl", " "), "|", "/"), "=", "-"))
  IN IF Len(d) > DescLimit THEN SubSeq(d, 1, DescLimit) ELSE d

\* Variant: the description put into the label as it is.
payload_qr_raw_desc(nro_serie, id_producto, descripcion, l) ==
  <<"N", "S", "=">> \o ZeroPad(Digits(nro_serie), SerieWidth)
  \o <<"|", "P", "R", "D", "=">> \o Digits(id_producto)
  \o <<"|", "D", "S", "C", "=">> \o descripcion
  \o <<"|", "L", "O", "T", "=">> \o numero_lote_of(l)
  \o <<"|", "F", "E", "C", "=">> \o fec_iso_of(l)
  \o <<"|", "V", "T", "O", "=">> \o vto_iso_of(l)

\* payload_qr of the label of nro_serie
payload_qr(nro_serie, id_producto, descripcion, l) ==
  <<"N", "S", "=">> \o ZeroPad(Digits(nro_serie), SerieWidth)
  \o <<"|", "P", "R", "D", "=">> \o Digits(id_producto)
  \o <<"|", "D", "S", "C", "=">> \o desc_clean_of(descripcion)
  \o <<"|", "L", "O", "T", "=">> \o numero_lote_of(l)
  \o <<"|", "F", "E", "C", "=">> \o fec_iso_of(l)
  \o <<"|", "V", "T", "O", "=">> \o vto_iso_of(l)

\* SELECT COALESCE(MAX(nro_serie), 0) FROM produccion.stock WHERE id_producto, lote
get_db_max_serie_for_lote(stk, id_producto, lote) ==
  LET S == {r.nro_serie : r \in {q \in stk : q.id_producto = id_producto /\ q.lote = lote}}
  IN IF S = {} THEN 0 ELSE CHOOSE m \in S : \A n \in S : n <= m

\* max(db_max, cache_max)
get_starting_serie(stk, cache, id_producto, lote) ==
  Max(get_db_max_serie_for_lote(stk, id_producto, lote), cache[<<id_producto, lote>>])

\* cache_set of the key gen_ultimo_serie::id_producto::lote
set_last_generated(cache, id_producto, lote, ultimo) ==
  [cache EXCEPT ![<<id_producto, lote>>] = ultimo]

\* The labels of one run: cantidad times nro_serie += 1 and a payload.
labels_of_run(id_producto, descripcion, l, start, cantidad) ==
  [i \in 1..cantidad |->
     [id_producto |-> id_producto, lote |-> l, nro_serie |-> start + i,
      payload |-> payload_qr(start + i, id_producto, descripcion, l)]]

\* The GENERAR button: al_hacer_click_generar and generar_y_imprimir_qrs.  l is
\* the day of the run, dialog what the operator does at the file dialog, write
\* whether save_config succeeds in writing config.json (its exception is passed
\* over: the run ends the same way, only the cache keeps its old value).
al_hacer_click_generar ==
  \E id_producto \in Productos, l \in LotesStock, cantidad \in 0..MaxCantidadGen,
     dialog \in {"saved", "cancelled"}, write \in {"ok", "fails"} :
    LET l0 == [op |-> "invalid", id_producto |-> id_producto, lote |-> l,
               cantidad |-> cantidad, start |-> None, write |-> "none"]
    IN
    /\ IF cantidad <= 0
       THEN gen' = [gen EXCEPT !.last = l0]
       ELSE \E start \in {get_starting_serie(stock, gen.cache, id_producto, l)} :
              IF dialog = "cancelled"
              THEN gen' = [gen EXCEPT !.last = [l0 EXCEPT !.op = "cancelled",
                                                          !.start = start]]
              ELSE /\ start + cantidad <= MaxGenSerie
                   /\ Len(gen.emitted) + cantidad <= MaxEmitted
                   /\ gen' = [gen EXCEPT
                        !.emitted = @ \o labels_of_run(id_producto,
                                                      gen.descripcion[id_producto],
                                                      l, start, cantidad),
                        !.cache = IF write = "ok"
                                  THEN set_last_generated(@, id_producto, l,
                                                          start + cantidad)
                                  ELSE @,
                        !.last = [l0 EXCEPT !.op = "generated", !.start = start,
                                            !.write = write]]
    /\ UNCHANGED <<stock, bajas, sheet, posts, sres, station>>

\* The inbound scan of a printed label (the program that fills produccion.stock):
\* the unit of an emitted label gets its row.
scan_ingreso ==
  /\ \E i \in 1..Len(gen.emitted) :
       /\ ~\E r \in stock : /\ r.id_producto = gen.emitted[i].id_producto
                            /\ r.lote = gen.emitted[i].lote
                            /\ r.nro_serie = gen.emitted[i].nro_serie
       /\ stock' = stock \cup {[id_producto |-> gen.emitted[i].id_producto,
                                lote |-> gen.emitted[i].lote,
                                nro_serie |-> gen.emitted[i].nro_serie,
                                tipo_unidad |-> "PALLET", packs |-> 0]}
  /\ UNCHANGED <<bajas, sheet, posts, sres, station, gen>>

\* At start: the products read, nothing generated on this station yet; the lot
\* of day 1 may hold units labelled elsewhere.
InitGenerador ==
  /\ InitEscanerIdle
  /\ stock \in {{}, {[id_producto |-> 1, lote |-> 1, nro_serie |-> 9,
                      tipo_unidad |-> "PALLET", packs |-> 0]}}
  /\ bajas = <<>>
  /\ sheet = NoSheet
  /\ posts = 0
  /\ sres = NoSres
  /\ station = [s \in Stations |-> IdleStation]
  /\ \E d \in [Productos -> Descripciones] :
       gen = [NoGen EXCEPT !.descripcion = d,
                           !.cache = [k \in Productos \X LotesStock |-> 0]]

NextGenerador ==
  \/ al_hacer_click_generar /\ UNCHANGED evars
  \/ scan_ingreso /\ UNCHANGED evars

SpecGenerador == InitGenerador /\ [][NextGenerador]_vars

\* ------------------------------------------------------ either program runs
\* escaner.py and salida.py work on different tables: a run follows one of the
\* two, the tables of the other staying as they are.
InitEither == Init \/ InitSalida

NextEither ==
  \/ InitSalidaIdle /\ Next
  \/ InitEscanerIdle /\ NextSalida

SpecEither == InitEither /\ [][NextEither]_vars

\* The outbox is durable: after a period of failed deliveries it holds the ids
\* k+1..n, the ids 1..k having been acknowledged.
BacklogFrom(k, n) ==
  [i \in 1..(n - k) |->
     [id |-> k + i,
      payload |-> [type |-> "scan_pp", lote |-> 1, stock_pallets |-> 0, stock_packs |-> 0]]]

InitDrain ==
  /\ stock_pp = {}
  /\ salidas = {}
  /\ \E n \in 0..MaxBacklog : \E k \in 0..n :
       /\ outbox = BacklogFrom(k, n)
       /\ next_id = n + 1
       /\ delivered = [i \in 1..k |-> i]
  /\ res = NoRes
  /\ InitSalidaIdle

\* retry_flush while the sink acknowledges every delivery.
retry_flush_acknowledged ==
  \E batch \in {pop_outbox_batch(outbox, BatchLimit)} :
  \E resps \in HealthySink(Len(batch)) :
  \E f \in {flush_outbox(outbox, resps)} :
       /\ outbox' = f.outbox
       /\ delivered' = delivered \o Acked(batch, resps, f.attempted)
       /\ res' = [NoRes EXCEPT !.op = "retry", !.flush = f.status, !.sent = f.sent,
                               !.attempted = f.attempted, !.fail_resp = f.fail_resp]
       /\ UNCHANGED <<stock_pp, salidas, next_id>>

NextDrain == retry_flush_acknowledged /\ UNCHANGED svars

\* From the point on where the sink acknowledges every delivery, and with the
\* flush invoked again and again.
SpecDrain == InitDrain /\ [][NextDrain]_vars /\ WF_vars(NextDrain)

\* ------------------------------------------- operations on a long backlog
\* A backlog longer than one batch, left by a period without deliveries.
InitBacklog ==
  /\ stock_pp = {}
  /\ salidas = {}
  /\ outbox = BacklogFrom(0, MaxBacklog)
  /\ next_id = MaxBacklog + 1
  /\ delivered = <<>>
  /\ res = NoRes
  /\ InitSalidaIdle

\* Either program runs, escaner.py from a fresh outbox or from the backlog.
InitOperations == InitEither \/ InitBacklog

\* The operations of the two programs; while the outbox is longer than MaxMsgs
\* the run follows the flushes that the sink acknowledges.
NextOperations ==
  \/ Len(outbox) <= MaxMsgs /\ NextEither
  \/ Len(outbox) > MaxMsgs /\ NextDrain

SpecOperations == InitOperations /\ [][NextOperations]_vars

\* ======================================================== claims, escaner.py
NetOfUnit(net, unit_type) == IF unit_type = "pallet" THEN net.net_p ELSE net.net_pk

OutboxIds(ob) == {ob[i].id : i \in 1..Len(ob)}

\* A salida whose serial lies in an inbound range of its lot.
Covered(tbl, s) ==
  \E r \in tbl : r.lote = s.lote /\ r.serie_inicio <= s.nro_serie /\ s.nro_serie <= r.serie_fin

\* The inbound ranges of each lot are pairwise disjoint, as they are expected
\* to be.
NonOverlapping(tbl) ==
  \A a \in tbl : \A b \in tbl :
    (a.id # b.id /\ a.lote = b.lote)
      => (a.serie_fin < b.serie_inicio \/ b.serie_fin < a.serie_inicio)

\* C1: a rollback that fails on the consumed-range guard has modified or deleted
\* no inbound range, also none it visited before the guard failed (stated for
\* tables whose ranges do not overlap).
C1_AllOrNothing ==
  [][(/\ NonOverlapping(stock_pp)
      /\ res'.op = "eliminar" /\ res'.outcome = "RangeAlreadyConsumed")
       => stock_pp' = stock_pp]_vars

\* C2: a rollback never uncovers a shipped unit: a salida whose serial is inside
\* an inbound range of its lot before a step is inside one after it.
C2_ShippedStaysCovered ==
  [][\A s \in salidas : Covered(stock_pp, s) => Covered(stock_pp', s)]_vars

\* C2 witness: a rollback changed ranges of a lot that holds a shipped unit.
C2_Witness ==
  /\ res.op = "eliminar" /\ res.outcome = "ok" /\ Len(res.adjusted_ids) > 0
  /\ \E s \in salidas : s.lote = res.lote /\ Covered(stock_pp, s)

\* C3: a rollback of n > 0 units whose precondition net >= n holds and that meets
\* no consumed range succeeds and lowers the net stock of that unit type by
\* exactly n.
C3_RollbackExact ==
  (/\ res.op = "eliminar" /\ res.cantidad > 0
   /\ NetOfUnit([net_p |-> res.net_p_before, net_pk |-> res.net_pk_before], res.unit_type)
        >= res.cantidad
   /\ res.outcome # "RangeAlreadyConsumed")
  => /\ res.outcome = "ok"
     /\ NetOfUnit(compute_net_stock(stock_pp, salidas, res.lote), res.unit_type)
          = NetOfUnit([net_p |-> res.net_p_before, net_pk |-> res.net_pk_before],
                      res.unit_type) - res.cantidad

\* C3 witness: a successful rollback that consumed units of two ranges.
C3_Witness ==
  res.op = "eliminar" /\ res.outcome = "ok" /\ Len(res.adjusted_ids) = 2

\* C4: a rollback of more units than the net stock holds fails with
\* InsufficientStock and leaves the inbound ranges and the outbox as they were.
C4_InsufficientStock ==
  [][(/\ res'.op = "eliminar" /\ res'.cantidad > 0
      /\ NetOfUnit(compute_net_stock(stock_pp, salidas, res'.lote), res'.unit_type)
           < res'.cantidad)
     => (/\ res'.outcome = "InsufficientStock"
         /\ stock_pp' = stock_pp /\ outbox' = outbox /\ next_id' = next_id
         /\ delivered' = delivered)]_vars

\* C4 witness: a rollback refused for lack of stock while the lot has ranges and
\* the outbox holds a message.
C4_Witness ==
  /\ res.op = "eliminar" /\ res.outcome = "InsufficientStock"
  /\ RowsOfLote(stock_pp, res.lote) # {} /\ Len(outbox) > 0

\* C8: a message leaves the outbox only once the sink acknowledged that message
\* with ok = true; the messages that stay keep their order and payload, and after
\* a failed delivery the failing message is still the head of the queue.
C8_DeleteOnlyAcked ==
  [][/\ \A m \in OutboxIds(outbox) \ OutboxIds(outbox') : m \in SeqToSet(delivered')
     /\ \E k \in 0..Len(outbox) :
          LET suf == SubSeq(outbox, k + 1, Len(outbox))
          IN /\ Len(outbox') >= Len(suf)
             /\ SubSeq(outbox', 1, Len(suf)) = suf
             /\ \A i \in (Len(suf) + 1)..Len(outbox') : outbox'[i].id \notin OutboxIds(outbox)
     /\ (res'.flush # "none" /\ res'.fail_resp # "none")
          => /\ Len(outbox') > 0
             /\ outbox'[1].id = res'.attempted[Len(res'.attempted)]
             /\ outbox'[1].id \notin SeqToSet(delivered')]_vars

\* C8 witness: a flush delivered one message and failed on the next one.
C8_Witness ==
  res.flush # "none" /\ res.sent >= 1 /\ res.fail_resp # "none" /\ Len(outbox) >= 1

RaisingResponses == {"http_error", "net_error"}

\* The messages the last flush tried and that are no longer queued.
DeletedByLastFlush == {a \in SeqToSet(res.attempted) : a \notin OutboxIds(outbox)}

C11_EventuallyDrained ==
  <>[](/\ outbox = <<>>
       /\ \A m \in 1..(next_id - 1) : m \in SeqToSet(delivered))

\* C11 witness: a backlog larger than one batch has been drained.
C11_Witness ==
  outbox = <<>> /\ Len(delivered) > BatchLimit /\ res.op = "retry"

\* C12: every rollback call that modifies or deletes an inbound range enqueues,
\* before it ends (returning or failing), a snapshot holding the net stock of the
\* lot after the change: the message of the next id is queued with that payload,
\* or was already acknowledged by the sink (stated for tables whose ranges do not
\* overlap).
C12_ChangeIsNotified ==
  [][(NonOverlapping(stock_pp) /\ res'.op = "eliminar" /\ stock_pp' # stock_pp)
       => /\ next_id' = next_id + 1
          /\ \/ next_id \in SeqToSet(delivered')
             \/ \E i \in 1..Len(outbox') :
                  /\ outbox'[i].id = next_id
                  /\ outbox'[i].payload =
                       build_payload_for_product_lote_net(stock_pp', salidas', res'.lote)]_vars

\* The reference net of a lot, by counting units: one unit per serial of every
\* range, the last one of a range with trailing packs being a partial pallet of
\* that many packs; minus the units and packs of the movements.
ReferenceNet(tbl, sal, lote) ==
  LET R == {r \in tbl : r.lote = lote}
      units == {<<r.id, n>> : r \in R, n \in Series}
      serials == {u \in units : \E r \in R : r.id = u[1] /\ r.serie_inicio <= u[2]
                                                         /\ u[2] <= r.serie_fin}
      partial == {r \in R : r.packs_fin > 0}
      packs == {<<r.id, k>> : r \in R, k \in 1..MaxPacks}
      in_packs == {u \in packs : \E r \in R : r.id = u[1] /\ u[2] <= r.packs_fin}
      out_p == {x \in sal : x.lote = lote /\ x.unit_type = "pallet"}
      out_k == {<<x.nro_serie, k>> : x \in {y \in sal : y.lote = lote /\ y.unit_type = "packs"},
                                     k \in 1..MaxPacks}
      out_packs == {u \in out_k : \E x \in sal : x.lote = lote /\ x.nro_serie = u[1]
                                                  /\ u[2] <= x.packs_qty}
  IN [net_p  |-> Cardinality(serials) - Cardinality(partial) - Cardinality(out_p),
      net_pk |-> Cardinality(in_packs) - Cardinality(out_packs)]

\* C15: compute_net_stock equals the reference sum for every lot, in every state
\* the rollbacks reach; a single range [1, 10] with 7 trailing packs and no
\* movement gives (9, 7).
C15_NetIsReferenceSum ==
  /\ \A lote \in Lotes :
       compute_net_stock(stock_pp, salidas, lote) = ReferenceNet(stock_pp, salidas, lote)
  /\ compute_net_stock({[id |-> 1, lote |-> 1, serie_inicio |-> 1, serie_fin |-> 10,
                         packs_fin |-> 7]}, {}, 1) = [net_p |-> 9, net_pk |-> 7]

\* C15 witness: the net was computed for a lot with a partial last pallet and a
\* movement, after a rollback changed its ranges.
C15_Witness ==
  /\ res.op = "eliminar" /\ res.outcome = "ok"
  /\ \E r \in stock_pp : r.lote = res.lote /\ r.packs_fin > 0 /\ r.serie_fin > r.serie_inicio
  /\ \E x \in salidas : x.lote = res.lote

\* C17: range well-formedness: after any sequence of rollbacks, successful or
\* failed, every remaining inbound range has serie_fin >= serie_inicio and
\* packs_fin >= 0.
C17_RangesWellFormed ==
  \A r \in stock_pp : r.serie_fin >= r.serie_inicio /\ r.packs_fin >= 0

\* C17 witness: a rollback shortened a range that remains, or took packs off it.
C17_Witness ==
  /\ res.op = "eliminar" /\ Len(res.adjusted_ids) > 0
  /\ \E r \in stock_pp : r.id \in SeqToSet(res.adjusted_ids)

\* The scenario of C18 at any place and size: the lot has one range [a, b]
\* without trailing packs, one pallet movement at a serial in it, and the
\* rollback asks for the b - a + 1 pallets of the range.
ConsumedRangeScenario(tbl, sal, lote, unit_type, cantidad) ==
  /\ unit_type = "pallet"
  /\ \E r \in tbl :
       /\ RowsOfLote(tbl, lote) = {r}
       /\ r.packs_fin = 0
       /\ cantidad = r.serie_fin - r.serie_inicio + 1
       /\ \E x \in sal :
            /\ {y \in sal : y.lote = lote} = {x}
            /\ x.unit_type = "pallet"
            /\ r.serie_inicio <= x.nro_serie /\ x.nro_serie <= r.serie_fin

\* The scenario as written: range [100, 105], pallet movement at serial 103,
\* rollback of 6 pallets.
Scenario_100_105 ==
  LET row == [id |-> 1, lote |-> 1, serie_inicio |-> 100, serie_fin |-> 105, packs_fin |-> 0]
      sal == {[lote |-> 1, nro_serie |-> 103, unit_type |-> "pallet", packs_qty |-> 0]}
  IN [before |-> {row},
      after  |-> eliminar_batch_ultimos({row}, sal, <<>>, 1, 1, "pallet", 6, <<row>>)]

\* C18 as stated: in the scenario the call fails with RangeAlreadyConsumed and
\* the range is untouched.
C18_FailsOnConsumedGuard ==
  [][/\ (res'.op = "eliminar"
          /\ ConsumedRangeScenario(stock_pp, salidas, res'.lote, res'.unit_type, res'.cantidad))
         => (res'.outcome = "RangeAlreadyConsumed" /\ stock_pp' = stock_pp)
     /\ Scenario_100_105.after.err = "RangeAlreadyConsumed"
     /\ Scenario_100_105.after.stock_pp = Scenario_100_105.before]_vars

\* C18 amended: in the scenario the call fails with InsufficientStock (the net
\* is one pallet short of the quantity asked), before the consumed-range guard
\* is evaluated, and the range is untouched.
C18_FailsOnPrecondition ==
  [][/\ (res'.op = "eliminar"
          /\ ConsumedRangeScenario(stock_pp, salidas, res'.lote, res'.unit_type, res'.cantidad))
         => (res'.outcome = "InsufficientStock" /\ stock_pp' = stock_pp
             /\ outbox' = outbox /\ next_id' = next_id)
     /\ Scenario_100_105.after.err = "InsufficientStock"
     /\ Scenario_100_105.after.stock_pp = Scenario_100_105.before]_vars

\* C18 witness: the scenario was played on a range of two serials.
C18_Witness ==
  /\ res.op = "eliminar" /\ res.cantidad = 2
  /\ ConsumedRangeScenario(stock_pp, salidas, res.lote, res.unit_type, res.cantidad)

\* C19: with a single writer and well-formed ranges the walk never exhausts
\* the ranges with units left to remove: no rollback ends IncompleteRollback,
\* and one whose precondition holds and that meets no consumed range ends ok.
C19_NoIncompleteRollback ==
  /\ res.outcome # "IncompleteRollback"
  /\ (res.op = "eliminar" /\ res.outcome \notin {"ok", "RangeAlreadyConsumed"})
       => res.outcome \in {"InsufficientStock", "CantidadInvalida"}

\* C19 witness: a rollback removed the last units of the last range of its lot.
C19_Witness ==
  /\ res.op = "eliminar" /\ res.outcome = "ok" /\ Len(res.adjusted_ids) = 2
  /\ res.new_last_serie = None /\ RowsOfLote(stock_pp, res.lote) = {}

\* The rows of the lot the step changed or deleted, as they were before it.
TouchedRows(tbl, tbl2, lote) == {r \in RowsOfLote(tbl, lote) : r \notin tbl2}

\* The row of that id is gone.
DeletedRow(tbl2, id) == ~\E q \in tbl2 : q.id = id

\* What a row holds of a unit type.
UnitsOfRow(r, unit_type) == IF unit_type = "pallet" THEN pallets_of_row(r) ELSE r.packs_fin

\* C24: newest first.  A rollback changes or deletes a range only if every range
\* of the lot with a greater serie_fin was deleted by the same call or holds no
\* unit of the requested type after it; and at most one range per call is left
\* partially reduced (changed, and still holding units of the requested type).
C24_NewestFirst ==
  [][(res'.op = "eliminar" /\ stock_pp' # stock_pp)
       => /\ \A r \in TouchedRows(stock_pp, stock_pp', res'.lote) :
               \A q \in RowsOfLote(stock_pp, res'.lote) :
                 q.serie_fin > r.serie_fin
                   => \/ DeletedRow(stock_pp', q.id)
                      \/ \E q2 \in stock_pp' :
                           q2.id = q.id /\ UnitsOfRow(q2, res'.unit_type) <= 0
          /\ Cardinality({r \in TouchedRows(stock_pp, stock_pp', res'.lote) :
                            \E r2 \in stock_pp' :
                              r2.id = r.id /\ UnitsOfRow(r2, res'.unit_type) > 0}) <= 1]_vars

\* C24 witness: a rollback went through two ranges: the newer one was deleted,
\* the older one is left partially reduced.
C24_Witness ==
  /\ res.op = "eliminar" /\ res.outcome = "ok" /\ res.unit_type = "pallet"
  /\ Len(res.adjusted_ids) = 2
  /\ DeletedRow(stock_pp, res.adjusted_ids[1])
  /\ ~DeletedRow(stock_pp, res.adjusted_ids[2])

\* C25: the pallet step.  In a pallet rollback a range whose whole pallet
\* contribution is consumed by the remaining quantity is deleted, trailing packs
\* included; a range of which only k pallets, k smaller than its contribution, are
\* consumed keeps its id, serie_inicio and packs_fin and has serie_fin lowered by
\* exactly k, k being what the deleted ranges left of the quantity asked.
C25_PalletStep ==
  [][(res'.op = "eliminar" /\ res'.unit_type = "pallet" /\ stock_pp' # stock_pp)
       => \E T \in {TouchedRows(stock_pp, stock_pp', res'.lote)} :
          \E D \in {{r \in T : DeletedRow(stock_pp', r.id)}} :
          \E k \in {res'.cantidad - SumSet(D, [r \in D |-> pallets_of_row(r)])} :
            /\ k >= 0
            /\ \A r \in D : pallets_of_row(r) > 0
            /\ \A r \in T \ D :
                 /\ k > 0 /\ k < pallets_of_row(r)
                 /\ [r EXCEPT !.serie_fin = r.serie_fin - k] \in stock_pp'
            /\ Cardinality(stock_pp') = Cardinality(stock_pp) - Cardinality(D)
            /\ (res'.outcome = "ok" /\ T = D) => k = 0]_vars

\* C25 witness: a pallet rollback deleted a range that had trailing packs, and
\* the packs of the lot went with it.
C25_Witness ==
  /\ res.op = "eliminar" /\ res.outcome = "ok" /\ res.unit_type = "pallet"
  /\ Len(res.adjusted_ids) >= 1 /\ DeletedRow(stock_pp, res.adjusted_ids[1])
  /\ compute_net_stock(stock_pp, salidas, res.lote).net_pk < res.net_pk_before

\* C26: the packs step.  A packs rollback deletes no range and changes no
\* serie_inicio or serie_fin; ranges with packs_fin = 0 are skipped; each other
\* visited range has packs_fin lowered by min(remaining, packs_fin), so that the
\* reductions add up to what was taken of the quantity asked and at most one
\* reduced range keeps packs; a range whose packs_fin reaches 0 stays.
C26_PacksStep ==
  [][(res'.op = "eliminar" /\ res'.unit_type = "packs" /\ stock_pp' # stock_pp)
       => \E T \in {TouchedRows(stock_pp, stock_pp', res'.lote)} :
            /\ Cardinality(stock_pp') = Cardinality(stock_pp)
            /\ \A r \in stock_pp : \E r2 \in stock_pp' :
                 /\ r2.id = r.id /\ r2.lote = r.lote
                 /\ r2.serie_inicio = r.serie_inicio /\ r2.serie_fin = r.serie_fin
                 /\ r2.packs_fin >= 0 /\ r2.packs_fin <= r.packs_fin
            /\ \A r \in T : r.packs_fin > 0
            /\ Cardinality({r \in T : \E r2 \in stock_pp' :
                                       r2.id = r.id /\ r2.packs_fin > 0}) <= 1
            /\ \E taken \in {SumSet(T, [r \in T |->
                      r.packs_fin - (CHOOSE r2 \in stock_pp' : r2.id = r.id).packs_fin])} :
                 /\ taken <= res'.cantidad
                 /\ res'.outcome = "ok" => taken = res'.cantidad]_vars

\* C26 witness: a packs rollback took all the trailing packs of a range, and the
\* range is still in the table with packs_fin = 0.
C26_Witness ==
  /\ res.op = "eliminar" /\ res.outcome = "ok" /\ res.unit_type = "packs"
  /\ Len(res.adjusted_ids) >= 1
  /\ \E r \in stock_pp : r.id = res.adjusted_ids[1] /\ r.packs_fin = 0

\* C29 as stated: a successful rollback of one unit type leaves the net stock of
\* the other unit type unchanged (packs rollback: net_pallets of the lot; pallet
\* rollback: net_packs of the lot).
C29_OtherTypeUnchanged ==
  [][(res'.op = "eliminar" /\ res'.outcome = "ok" /\ stock_pp' # stock_pp)
       => \E after \in {compute_net_stock(stock_pp', salidas', res'.lote)} :
            /\ res'.unit_type = "packs" => after.net_p = res'.net_p_before
            /\ res'.unit_type = "pallet" => after.net_pk = res'.net_pk_before]_vars

\* C29: what a successful rollback does to the other unit type.  A packs rollback
\* raises net_pallets of the lot by one for every range whose packs_fin it brought
\* to 0 (the last serial of such a range counts as a full pallet from then on) and
\* by nothing else; a pallet rollback lowers net_packs of the lot by the packs_fin
\* of the ranges it deleted and by nothing else.
C29_CrossEffect ==
  [][(res'.op = "eliminar" /\ res'.outcome = "ok" /\ stock_pp' # stock_pp)
       => \E after \in {compute_net_stock(stock_pp', salidas', res'.lote)} :
          \E T \in {TouchedRows(stock_pp, stock_pp', res'.lote)} :
            /\ res'.unit_type = "packs"
                 => after.net_p = res'.net_p_before
                      + Cardinality({r \in T : r.packs_fin > 0 /\
                           \E r2 \in stock_pp' : r2.id = r.id /\ r2.packs_fin = 0})
            /\ res'.unit_type = "pallet"
                 => \E D \in {{r \in T : DeletedRow(stock_pp', r.id)}} :
                      after.net_pk = res'.net_pk_before
                                       - SumSet(D, [r \in D |-> r.packs_fin])]_vars

\* C29 witness: a packs rollback took the last trailing packs of a range, and the
\* lot has one pallet more than before it.
C29_Witness ==
  /\ res.op = "eliminar" /\ res.outcome = "ok" /\ res.unit_type = "packs"
  /\ Len(res.adjusted_ids) >= 1
  /\ compute_net_stock(stock_pp, salidas, res.lote).net_p = res.net_p_before + 1

\* A salida of the row's lot lies in the row's span.
HasSalida(sal, r) ==
  \E s \in sal : s.lote = r.lote /\ r.serie_inicio <= s.nro_serie /\ s.nro_serie <= r.serie_fin

\* What the rows of L other than r hold of a unit type.
UnitsOfOthers(L, r, unit_type) ==
  SumSet(L \ {r}, [q \in L \ {r} |-> UnitsOfRow(q, unit_type)])

\* C30 as stated: the consumed-range guard is precise.  A rollback fails with
\* RangeAlreadyConsumed only if a range of the lot holding units of the requested
\* type, which the call would otherwise change or delete, contains a salida.
C30_GuardPrecise ==
  [][(res'.op = "eliminar" /\ res'.outcome = "RangeAlreadyConsumed")
       => \E r \in RowsOfLote(stock_pp, res'.lote) :
            HasSalida(salidas, r) /\ UnitsOfRow(r, res'.unit_type) > 0]_vars

\* C30: the consumed-range guard is applied to every range the walk visits,
\* before the test that skips it.  A rollback fails with RangeAlreadyConsumed
\* only if the stock suffices and a range of the lot containing a salida is such
\* that the ranges with a greater serie_fin hold fewer units of the requested
\* type than asked, whatever that range itself holds, and then the ranges
\* containing a salida are left as they were; and it does fail so whenever the
\* stock suffices and the ranges with a greater or equal serie_fin than such a
\* range hold fewer units than asked.
C30_GuardOnVisited ==
  [][(res'.op = "eliminar" /\ res'.cantidad # None /\ res'.cantidad > 0)
       => \E L \in {RowsOfLote(stock_pp, res'.lote)} :
          \E enough \in {~insufficient_stock(compute_net_stock(stock_pp, salidas, res'.lote),
                                             res'.unit_type, res'.cantidad)} :
            /\ res'.outcome = "RangeAlreadyConsumed"
                 => /\ enough
                    /\ \E r \in L :
                         /\ HasSalida(salidas, r)
                         /\ UnitsOfOthers({q \in L : q = r \/ q.serie_fin > r.serie_fin},
                                          r, res'.unit_type) < res'.cantidad
                    /\ \A r \in L : HasSalida(salidas, r) => r \in stock_pp'
            /\ (enough /\ \E r \in L :
                            /\ HasSalida(salidas, r)
                            /\ UnitsOfOthers({q \in L : q.serie_fin >= r.serie_fin},
                                             r, res'.unit_type) < res'.cantidad)
                 => res'.outcome = "RangeAlreadyConsumed"]_vars

\* C30 witness: a rollback failed on the guard although no range containing a
\* salida holds a unit of the requested type.
C30_Witness ==
  /\ res.op = "eliminar" /\ res.outcome = "RangeAlreadyConsumed"
  /\ \A r \in RowsOfLote(stock_pp, res.lote) :
       HasSalida(salidas, r) => UnitsOfRow(r, res.unit_type) <= 0

\* C23: within one user-facing operation every pending notification is attempted
\* at most once.  A rollback confirmation or a press of the retry button attempts
\* messages that were pending (or that it enqueued), each once, at most 50 of them;
\* after a failed delivery nothing more is attempted, the failed message stays
\* queued, and every acknowledged message is delivered once.  An outbound
\* movement makes at most one POST.
C23_AttemptedOnce ==
  [][/\ res'.op \in {"eliminar", "retry"}
        => /\ \A i \in 1..Len(res'.attempted) : \A j \in 1..Len(res'.attempted) :
                res'.attempted[i] = res'.attempted[j] => i = j
           /\ Len(res'.attempted) <= BatchLimit
           /\ SeqToSet(res'.attempted) \subseteq
                (OutboxIds(outbox) \cup (IF next_id' # next_id THEN {next_id} ELSE {}))
           /\ res'.fail_resp # "none"
                => /\ Len(res'.attempted) = res'.sent + 1
                   /\ res'.attempted[Len(res'.attempted)] \in OutboxIds(outbox')
           /\ res'.fail_resp = "none" => Len(res'.attempted) = res'.sent
           /\ Len(delivered') = Len(delivered) + res'.sent
           /\ \A i \in 1..res'.sent : delivered'[Len(delivered) + i] = res'.attempted[i]
     /\ sres'.op \in {"qr", "manual"}
        => /\ posts' \in {posts, posts + 1}
           /\ posts' = posts + 1 <=> sres'.outcome = "ok"]_vars

\* C23 witness: a flush stopped at the 50th message with messages still pending.
C23_Witness ==
  /\ res.op = "retry" /\ Len(res.attempted) = BatchLimit /\ res.fail_resp = "none"
  /\ Len(outbox) >= 1

\* ========================================================= claims, salida.py
\* Inbound minus outbound of a lot, not clamped.
RawNetLote(stk, bj, id_producto, lote) ==
  LET P == {r \in stk : r.id_producto = id_producto /\ r.lote = lote
                        /\ r.tipo_unidad = "PALLET"}
      K == {r \in stk : r.id_producto = id_producto /\ r.lote = lote
                        /\ r.tipo_unidad = "PACKS"}
      OP == {i \in 1..Len(bj) : bj[i].id_producto = id_producto /\ bj[i].stock_lote = lote
                                /\ bj[i].tipo_unidad # "PACKS"}
      OK == {i \in 1..Len(bj) : bj[i].id_producto = id_producto /\ bj[i].stock_lote = lote
                                /\ bj[i].tipo_unidad = "PACKS"}
  IN [pallets |-> Cardinality(P) - SumSet(OP, [i \in OP |-> bj[i].cantidad]),
      packs   |-> SumSet(K, [r \in K |-> r.packs]) - SumSet(OK, [i \in OK |-> bj[i].cantidad])]

NoLotOverdrawn(stk, bj) ==
  \A p \in Productos : \A l \in LotesStock :
    \A n \in {RawNetLote(stk, bj, p, l)} : n.pallets >= 0 /\ n.packs >= 0

\* C5: no unit is shipped twice: the movements recorded by QR have pairwise
\* different (product, lot, serial).
C5_NoDuplicateMovement ==
  \A i \in 1..Len(bajas) : \A j \in 1..Len(bajas) :
    (i < j /\ bajas[i].qr_ns # None /\ bajas[j].qr_ns # None)
      => ~(/\ bajas[i].id_producto = bajas[j].id_producto
           /\ bajas[i].stock_lote = bajas[j].stock_lote
           /\ bajas[i].qr_ns = bajas[j].qr_ns)

\* C6: outbound movements never overdraw a lot: when no lot has a negative net
\* (pallets or packs, not clamped) before a step, none has after it; and a
\* movement that would make the counter of its unit type negative fails with
\* InsufficientStock and inserts nothing.
C6_NoOverdraw ==
  [][/\ (bajas' # bajas \/ stock' # stock)
          => (NoLotOverdrawn(stock, bajas) => NoLotOverdrawn(stock', bajas'))
     /\ (/\ sres'.op \in {"qr", "manual"}
         /\ sres'.tipo_unidad \in {"PALLET", "PACKS"}
         /\ sres'.cantidad > 0
         /\ sres'.outcome \in {"ok", "InsufficientStock"}
         /\ \E n \in {RawNetLote(stock, bajas, sres'.id_producto, sres'.lote)} :
              (IF sres'.tipo_unidad = "PALLET" THEN n.pallets ELSE n.packs)
                 - sres'.cantidad < 0
         /\ NoLotOverdrawn(stock, bajas))
        => (sres'.outcome = "InsufficientStock" /\ bajas' = bajas)]_vars

\* C6 witness: a movement was refused for lack of stock after another one had
\* been recorded, no lot being overdrawn.
C6_Witness ==
  /\ sres.outcome = "InsufficientStock" /\ Len(bajas) >= 1
  /\ bajas[Len(bajas)].tipo_unidad # "NULL"
  /\ NoLotOverdrawn(stock, bajas)

\* C7: a QR whose (product, lot, serial) has no row in stock is refused: no
\* movement is inserted, the projection table is unchanged and nothing is posted.
C7_SerialNotFound ==
  [][(/\ sres'.op = "qr" /\ sres'.ns # None /\ sres'.id_producto # None /\ sres'.lote # None
      /\ ~\E r \in stock : /\ r.id_producto = sres'.id_producto
                           /\ r.lote = sres'.lote /\ r.nro_serie = sres'.ns)
     => (/\ sres'.outcome = "SerialNotFound"
         /\ bajas' = bajas /\ sheet' = sheet /\ posts' = posts /\ stock' = stock)]_vars

\* C7 witness: a QR was refused as not in stock while its lot has other units.
C7_Witness ==
  /\ sres.op = "qr" /\ sres.outcome = "SerialNotFound"
  /\ \E r \in stock : r.id_producto = sres.id_producto /\ r.lote = sres.lote

\* C13: after a recorded outbound movement whose delivery to the sink failed, the
\* notification is queued in the outbox for a later flush.
C13_NotificationQueued ==
  [][(sres'.op \in {"qr", "manual"} /\ sres'.outcome = "ok" /\ sres'.warn)
       => Len(outbox') > Len(outbox)]_vars

C16_NeverClamps ==
  \A p \in Productos : \A l \in LotesStock :
    \E n \in {compute_net_available_lote(stock, bajas, p, l)} :
    \E raw \in {RawNetLote(stock, bajas, p, l)} :
      n.net_pallets = raw.pallets /\ n.net_packs = raw.packs

\* C20: each ledger operation behaves as one atomic read-modify-write: with two
\* stations interleaving the statements of their outbound movements on one lot,
\* the ledger is one that the calls made one after the other produce; in
\* particular no lot gets a negative net (pallets or packs, not clamped).
C20_AtomicOperations == NoLotOverdrawn(stock, bajas)

\* C21: a scanned text that lacks one of the six required keys (or has it empty)
\* is refused with InvalidPayload and no outbound movement is recorded from it.
C21_IncompletePayloadRejected ==
  [][(sres'.op = "qr" /\ sres'.missing # {})
       => (sres'.outcome = "InvalidPayload" /\ bajas' = bajas)]_vars

\* Inbound minus outbound of a product over all its lots, not clamped.
RawNetProduct(stk, bj, id_producto) ==
  LET P == {r \in stk : r.id_producto = id_producto /\ r.tipo_unidad = "PALLET"}
      K == {r \in stk : r.id_producto = id_producto /\ r.tipo_unidad = "PACKS"}
      OP == {i \in 1..Len(bj) : bj[i].id_producto = id_producto /\ bj[i].tipo_unidad # "PACKS"}
      OK == {i \in 1..Len(bj) : bj[i].id_producto = id_producto /\ bj[i].tipo_unidad = "PACKS"}
  IN [pallets |-> Cardinality(P) - SumSet(OP, [i \in OP |-> bj[i].cantidad]),
      packs   |-> SumSet(K, [r \in K |-> r.packs]) - SumSet(OK, [i \in OK |-> bj[i].cantidad])]

\* C22: after every successful outbound movement, by QR or manual, the row of the
\* product in the projection table holds exactly the net pallets and net packs of
\* the product computed from the ledger rows after the insert, whether the sink
\* acknowledged the update or not.
C22_ProjectionIsLedgerNet ==
  [][(sres'.op \in {"qr", "manual"} /\ sres'.outcome = "ok" /\ bajas' # bajas)
       => \A n \in {RawNetProduct(stock', bajas', sres'.id_producto)} :
            sheet'[sres'.id_producto] =
              [present |-> TRUE, stock_pallets |-> n.pallets, stock_packs |-> n.packs]]_vars

\* C22 on the ledgers whose product nets are not negative (bound to the defect of
\* the clamped totals only): there the projection row is the net after the insert.
C22_ProjectionOnSoundLedger ==
  [][(sres'.op \in {"qr", "manual"} /\ sres'.outcome = "ok" /\ bajas' # bajas)
       => \A n \in {RawNetProduct(stock', bajas', sres'.id_producto)} :
            (n.pallets >= 0 /\ n.packs >= 0)
              => sheet'[sres'.id_producto] =
                   [present |-> TRUE, stock_pallets |-> n.pallets, stock_packs |-> n.packs]]_vars

\* ================================== claims, generacionEimpresion.py
\* C27: on one station, over any sequence of generation runs for a product and
\* lot, interleaved with the scans that bring emitted labels into stock, no serial
\* number is emitted twice.
C27_NoSerialTwice ==
  \A i \in 1..Len(gen.emitted) : \A j \in 1..Len(gen.emitted) :
    (/\ i < j
     /\ gen.emitted[i].id_producto = gen.emitted[j].id_producto
     /\ gen.emitted[i].lote = gen.emitted[j].lote)
      => gen.emitted[i].nro_serie # gen.emitted[j].nro_serie

\* C27, the run itself: a run that saves its PDF emits the serials start+1 ..
\* start+n one after the other, start being the larger of the highest serial of
\* the lot in stock and the serial cached, and asks for start+n to be put into
\* the cache, which has it when config.json could be written; a run cancelled at
\* the file dialog emits nothing and records nothing.
C27_RunEmitsContiguous ==
  [][/\ (gen' # gen /\ gen'.last.op = "generated")
        => \E n \in {gen'.last.cantidad} :
           \E p \in {gen'.last.id_producto} :
           \E l \in {gen'.last.lote} :
           \E start \in {Max(get_db_max_serie_for_lote(stock, p, l), gen.cache[<<p, l>>])} :
             /\ gen'.last.start = start
             /\ Len(gen'.emitted) = Len(gen.emitted) + n
             /\ SubSeq(gen'.emitted, 1, Len(gen.emitted)) = gen.emitted
             /\ \A i \in 1..n :
                  /\ gen'.emitted[Len(gen.emitted) + i].nro_serie = start + i
                  /\ gen'.emitted[Len(gen.emitted) + i].id_producto = p
                  /\ gen'.emitted[Len(gen.emitted) + i].lote = l
             /\ gen'.last.write = "ok"
                  => gen'.cache = [gen.cache EXCEPT ![<<p, l>>] = start + n]
     /\ gen'.last.op = "cancelled"
        => gen'.emitted = gen.emitted /\ gen'.cache = gen.cache]_vars

\* The number of times c occurs in t.
Occurrences(t, c) == Cardinality({i \in 1..Len(t) : t[i] = c})

\* C28: round trip of generator and parser.  Every payload emitted by the label
\* generator has no "|" and no "=" inside a value (its six values are separated by
\* five "|", each part holding the one "=" after its key), is accepted by the
\* scan payload parser, and parses back to the serial number, the product id and
\* the lot the generator used.
C28_RoundTrip ==
  \A i \in 1..Len(gen.emitted) :
    \E e \in {gen.emitted[i]} :
      /\ Occurrences(e.payload, "|") = 5
      /\ \E parts \in {Split(e.payload, "|")} :
           \A k \in 1..Len(parts) : Occurrences(parts[k], "=") = 1
      /\ \E raw \in {qr_fields(e.payload)} :
           parse_qr_payload(raw)
             = [err |-> "ok", nro_serie |-> e.nro_serie, id_producto |-> e.id_producto,
                lote |-> e.lote]

\* C28 witness: a label with a serial of two digits was emitted for a product
\* whose description holds a "|" and a "=".
C28_Witness ==
  \E i \in 1..Len(gen.emitted) :
    /\ gen.emitted[i].nro_serie >= 10
    /\ Contains(gen.descripcion[gen.emitted[i].id_producto], "|")
    /\ Contains(gen.descripcion[gen.emitted[i].id_producto], "=")

====
